---- MODULE Spec2Model ----
(***************************************************************************)
(* Model of catalog_generators/lvc_gwtc1_parser.py: the LVC GWTC-1         *)
(* catalog generator (generate_lvc_catalog and its three stages), the      *)
(* event summariser summarise_event_df, and the event parser               *)
(* LvcGwtc1EventParser (load_event_samples, standardise_samples).          *)
(*                                                                         *)
(* Sample values are floating point in the program; they are modelled as   *)
(* exact rationals <<n, d>> in lowest terms with d > 0.  A sample table    *)
(* (pandas DataFrame) is a record [order, data]: the column names in       *)
(* column order and the column of each name, a sequence of NDraws values.  *)
(***************************************************************************)
EXTENDS Integers, Sequences, FiniteSets, TLC

VARIABLES
    dir,                  \* the source directory: file name -> file content
    files,                \* the list glob.glob returned
    pc,                   \* position of the running call
    i,                    \* loop index of the running stage
    events_samples_dict,  \* event name -> sample table
    event_order,          \* insertion order of events_samples_dict's keys
    summary_dict,         \* event name -> Summary Record
    document,             \* what dict_to_json wrote
    error,                \* the exception that ended the call
    samples,              \* the table standardise_samples works on, in place
    std_ret,              \* what standardise_samples / load_event_samples returned
    first_ret,            \* the table the first standardise_samples call returned
    event_df,             \* the table summarise_event_df was called with
    summary,              \* summarise_event_df's local dict, before the filter
    event_summary_dict    \* what summarise_event_df returned

vars == <<dir, files, pc, i, events_samples_dict, event_order, summary_dict,
          document, error, samples, std_ret, first_ret, event_df, summary,
          event_summary_dict>>

(***************************************************************************)
(* Bounds of the model.                                                    *)
(***************************************************************************)
NDraws == 2
MaxSeed == 2
MaxFiles == 2

(***************************************************************************)
(* Rational arithmetic standing for the program's float arithmetic.        *)
(***************************************************************************)
Abs(n) == IF n < 0 THEN -n ELSE n

RECURSIVE Gcd(_, _)
Gcd(a, b) == IF b = 0 THEN a ELSE Gcd(b, a % b)

Norm(n, d) ==
    LET g == Gcd(Abs(n), Abs(d))
        s == IF d < 0 THEN -1 ELSE 1
    IN  <<(s * n) \div g, (s * d) \div g>>

Rat(n) == <<n, 1>>
RAdd(a, b) == Norm(a[1] * b[2] + b[1] * a[2], a[2] * b[2])
RMul(a, b) == Norm(a[1] * b[1], a[2] * b[2])
RDiv(a, b) == Norm(a[1] * b[2], a[2] * b[1])
RLeq(a, b) == a[1] * b[2] <= b[1] * a[2]

(***************************************************************************)
(* Exceptions and absent values.                                           *)
(***************************************************************************)
NoError == [kind |-> "none"]
KeyError(k) == [kind |-> "KeyError", key |-> k]
None == [kind |-> "None"]

(***************************************************************************)
(* SEARCH_PARAMS: the keys read from a posterior file, in dict order.      *)
(***************************************************************************)
SEARCH_PARAMS ==
    << "luminosity_distance_Mpc", "m1_detector_frame_Msun",
       "m2_detector_frame_Msun", "right_ascension", "declination",
       "costheta_jn", "spin1", "costilt1", "spin2", "costilt2" >>

SearchKeys == {SEARCH_PARAMS[k] : k \in 1..Len(SEARCH_PARAMS)}

(***************************************************************************)
(* pandas DataFrame operations.                                            *)
(***************************************************************************)
Columns(df) == DOMAIN df.data

\* df[name] = col: an existing column is replaced in place, a new one is
\* appended after the last column.
SetColumn(df, name, col) ==
    IF name \in Columns(df)
    THEN [df EXCEPT !.data = [c \in Columns(df) |->
                                 IF c = name THEN col ELSE df.data[c]]]
    ELSE [order |-> Append(df.order, name),
          data  |-> [c \in Columns(df) \cup {name} |->
                        IF c = name THEN col ELSE df.data[c]]]

\* Pointwise operations on columns (pandas Series).
ColDiv(a, b) == [j \in 1..NDraws |-> RDiv(a[j], b[j])]
ColOnePlus(a) == [j \in 1..NDraws |-> RAdd(Rat(1), a[j])]
ColConst(n) == [j \in 1..NDraws |-> Rat(n)]

(***************************************************************************)
(* Collaborators defined outside this file.                                *)
(***************************************************************************)
\* Hubble-law scale of the redshift-from-distance function: z = d / scale.
HubbleScale == 4

\* Redshift of one luminosity distance: strictly increasing in d.
\* (bilby's luminosity_distance_to_redshift, utils.get_redshift_from_dl.)
luminosity_distance_to_redshift(d) == RDiv(d, Rat(HubbleScale))

get_redshift_from_dl(col) ==
    [j \in 1..NDraws |-> luminosity_distance_to_redshift(col[j])]

\* event_keys.REQUIRED_PARAMETERS: the Canonical Parameter Set, in order.
REQUIRED_PARAMETERS ==
    << "mass_1", "mass_2", "mass_1_source", "mass_2_source", "mass_ratio",
       "luminosity_distance", "redshift", "ra", "dec", "a_1", "a_2",
       "cos_tilt_1", "cos_tilt_2", "spin_1z", "spin_2z", "incl", "phi_12",
       "phi_jl", "geocent_time" >>

CanonicalSet == {REQUIRED_PARAMETERS[k] : k \in 1..Len(REQUIRED_PARAMETERS)}

\* utils.add_aligned_component_spins: the effective aligned spin of each
\* draw, chi_eff = (spin_1z + q * spin_2z) / (1 + q) with q = mass_ratio.
add_aligned_component_spins(df) ==
    LET s1 == df.data["spin_1z"]
        s2 == df.data["spin_2z"]
        q  == df.data["mass_ratio"]
    IN  SetColumn(df, "chi_eff",
            [j \in 1..NDraws |->
                RDiv(RAdd(s1[j], RMul(q[j], s2[j])), RAdd(Rat(1), q[j]))])

\* The names of seq that are in keep, in seq's order.
RECURSIVE SelectNames(_, _)
SelectNames(seq, keep) ==
    IF seq = <<>> THEN <<>>
    ELSE IF Head(seq) \in keep
         THEN <<Head(seq)>> \o SelectNames(Tail(seq), keep)
         ELSE SelectNames(Tail(seq), keep)

\* utils.sort_parameters, applied to the table the decorated function
\* returned: the canonical columns first, in canonical order, then the
\* other columns in the order they had.  No column is added or dropped.
sort_parameters(df) ==
    [order |-> SelectNames(REQUIRED_PARAMETERS, Columns(df))
               \o SelectNames(df.order, Columns(df) \ CanonicalSet),
     data  |-> df.data]

(***************************************************************************)
(* LvcGwtc1EventParser.standardise_samples.  The body is a sequence of     *)
(* column assignments on the caller's table; each reads its source         *)
(* columns in the order of `reads` and raises KeyError at the first one    *)
(* the table lacks, leaving the assignments already made in place.         *)
(***************************************************************************)
Step(op, dst, reads) == [op |-> op, dst |-> dst, reads |-> reads]

\* A variant that converts the detector-frame mass 1 column in place
\* before copying it.
StandardiseStepsInPlace ==
    << Step("copy", "luminosity_distance", <<"luminosity_distance_Mpc">>),
       Step("redshift", "redshift", <<"luminosity_distance">>),
       Step("source", "m1_detector_frame_Msun",
            <<"m1_detector_frame_Msun", "redshift">>),
       Step("copy", "mass_1_source", <<"m1_detector_frame_Msun">>),
       Step("copy", "a_1", <<"spin1">>),
       Step("copy", "cos_tilt_1", <<"costilt1">>),
       Step("copy", "spin_1z", <<"costilt1">>),
       Step("source", "mass_2_source", <<"m2_detector_frame_Msun", "redshift">>),
       Step("copy", "a_2", <<"spin2">>),
       Step("copy", "cos_tilt_2", <<"costilt2">>),
       Step("copy", "spin_2z", <<"costilt2">>),
       Step("ratio", "mass_ratio", <<"mass_2_source", "mass_1_source">>),
       Step("copy", "ra", <<"right_ascension">>),
       Step("copy", "dec", <<"declination">>),
       Step("aligned", "chi_eff", <<"spin_1z", "spin_2z", "mass_ratio">>),
       Step("const", "incl", <<>>),
       Step("const", "phi_12", <<>>),
       Step("const", "phi_jl", <<>>),
       Step("const", "geocent_time", <<>>) >>

StandardiseSteps ==
    << Step("copy", "luminosity_distance", <<"luminosity_distance_Mpc">>),
       Step("redshift", "redshift", <<"luminosity_distance">>),
       Step("source", "mass_1_source", <<"m1_detector_frame_Msun", "redshift">>),
       Step("copy", "a_1", <<"spin1">>),
       Step("copy", "cos_tilt_1", <<"costilt1">>),
       Step("copy", "spin_1z", <<"costilt1">>),
       Step("source", "mass_2_source", <<"m2_detector_frame_Msun", "redshift">>),
       Step("copy", "a_2", <<"spin2">>),
       Step("copy", "cos_tilt_2", <<"costilt2">>),
       Step("copy", "spin_2z", <<"costilt2">>),
       Step("ratio", "mass_ratio", <<"mass_2_source", "mass_1_source">>),
       Step("copy", "ra", <<"right_ascension">>),
       Step("copy", "dec", <<"declination">>),
       Step("aligned", "chi_eff", <<"spin_1z", "spin_2z", "mass_ratio">>),
       Step("const", "incl", <<>>),
       Step("const", "phi_12", <<>>),
       Step("const", "phi_jl", <<>>),
       Step("const", "geocent_time", <<>>) >>

\* The first column of reads that df lacks, as a one-element set, or {}.
MissingRead(df, reads) ==
    LET bad == {k \in 1..Len(reads) : reads[k] \notin Columns(df)}
    IN  IF bad = {} THEN {}
        ELSE {reads[CHOOSE k \in bad : \A m \in bad : k <= m]}

ApplyStep(df, s) ==
    CASE s.op = "copy" -> SetColumn(df, s.dst, df.data[s.reads[1]])
      [] s.op = "redshift" ->
            SetColumn(df, s.dst, get_redshift_from_dl(df.data[s.reads[1]]))
      [] s.op = "source" ->
            SetColumn(df, s.dst,
                ColDiv(df.data[s.reads[1]], ColOnePlus(df.data[s.reads[2]])))
      [] s.op = "ratio" ->
            SetColumn(df, s.dst, ColDiv(df.data[s.reads[1]], df.data[s.reads[2]]))
      [] s.op = "aligned" -> add_aligned_component_spins(df)
      [] s.op = "const" -> SetColumn(df, s.dst, ColConst(0))

\* A variant that passes over a step whose source column is absent.
RECURSIVE RunStepsSkipping(_, _, _)
RunStepsSkipping(df, steps, k) ==
    IF k > Len(steps) THEN [df |-> df, error |-> NoError]
    ELSE IF MissingRead(df, steps[k].reads) # {}
         THEN RunStepsSkipping(df, steps, k + 1)
         ELSE RunStepsSkipping(ApplyStep(df, steps[k]), steps, k + 1)

\* Runs steps[k..]: the table as the run left it, and the exception if any.
RECURSIVE RunSteps(_, _, _)
RunSteps(df, steps, k) ==
    IF k > Len(steps) THEN [df |-> df, error |-> NoError]
    ELSE LET miss == MissingRead(df, steps[k].reads)
         IN  IF miss # {}
             THEN [df |-> df, error |-> KeyError(CHOOSE m \in miss : TRUE)]
             ELSE RunSteps(ApplyStep(df, steps[k]), steps, k + 1)

\* The decorated function: the body, then sort_parameters on its result.
standardise_samples(df) ==
    LET r == RunSteps(df, StandardiseSteps, 1)
    IN  IF r.error = NoError
        THEN [df |-> r.df, ret |-> sort_parameters(r.df), error |-> NoError]
        ELSE [df |-> r.df, ret |-> None, error |-> r.error]

(***************************************************************************)
(* Posterior files.  A file's Overall_posterior group holds the keys in    *)
(* `keys`; the array of key k has NDraws values that depend on the file's  *)
(* seed.  Masses and distances are positive, with m2 <= m1.                *)
(***************************************************************************)
Value(k, seed, j) ==
    CASE k \in {"luminosity_distance_Mpc", "luminosity_distance"} ->
            Rat(seed * j)
      [] k \in {"m1_detector_frame_Msun", "mass_1"} -> Rat(seed + j + 2)
      [] k \in {"m2_detector_frame_Msun", "mass_2"} -> Rat(seed + j)
      [] k = "total_mass" -> Rat(2 * seed + 2 * j + 2)
      [] k = "redshift" -> Rat(seed)
      [] k = "mass_1_source" -> Rat(j)
      [] k = "right_ascension" -> Rat(j)
      [] k = "declination" -> Rat(-seed)
      [] k = "costheta_jn" -> Norm(1, j + 1)
      [] k = "spin1" -> Norm(1, seed + 1)
      [] k = "costilt1" -> Norm(-1, j)
      [] k = "spin2" -> Norm(j, j + seed)
      [] k = "costilt2" -> Norm(1, seed + j)
      [] OTHER -> Rat(seed + 2 * j)

ColumnOf(k, seed) == [j \in 1..NDraws |-> Value(k, seed, j)]

\* pd.DataFrame(dict): one column per key, in the dict's order.
DataFrame(order, keys, seed) ==
    [order |-> SelectNames(order, keys),
     data  |-> [k \in keys |-> ColumnOf(k, seed)]]

\* The file contents the model draws from: a key set and a seed.
FileContent(keys, seed) == [keys |-> keys, seed |-> seed]

\* The first key of SEARCH_PARAMS a file's group lacks, as a set, or {}.
MissingKey(f) == MissingRead([data |-> [k \in f.keys |-> 0]], SEARCH_PARAMS)

\* {k: event_hdf["Overall_posterior"][k][()] for k in SEARCH_PARAMS}, then
\* pd.DataFrame: the table of the file, or the KeyError of the first key
\* the group lacks.
ReadPosterior(f) ==
    LET miss == MissingKey(f)
    IN  IF miss # {}
        THEN [df |-> None, error |-> KeyError(CHOOSE m \in miss : TRUE)]
        ELSE [df |-> DataFrame(SEARCH_PARAMS, SearchKeys, f.seed),
              error |-> NoError]

(***************************************************************************)
(* Calls of the event parser: LvcGwtc1EventParser.load_event_samples on    *)
(* one file, and standardise_samples on a raw table and again on the       *)
(* table it returned.                                                      *)
(***************************************************************************)
ParserFile == "GW150914_GWTC-1.hdf5"

PipelineIdle ==
    /\ files = <<>>
    /\ i = 0
    /\ events_samples_dict = <<>>
    /\ event_order = <<>>
    /\ summary_dict = <<>>
    /\ document = None

SummariserIdle ==
    /\ event_df = None
    /\ summary = <<>>
    /\ event_summary_dict = None

InitParser ==
    /\ PipelineIdle
    /\ SummariserIdle
    /\ error = NoError
    /\ std_ret = None
    /\ first_ret = None
    /\ \E keys \in SUBSET SearchKeys, seed \in 1..MaxSeed :
          \/ /\ pc = "parser_load"
             /\ dir = (ParserFile :> FileContent(keys, seed))
             /\ samples = None
          \/ /\ pc = "standardise"
             /\ dir = <<>>
             /\ samples = DataFrame(SEARCH_PARAMS, keys, seed)

LoadEventSamples ==
    /\ pc = "parser_load"
    /\ LET r == ReadPosterior(dir[ParserFile])
       IN  IF r.error = NoError
           THEN /\ std_ret' = [samples |-> r.df, datasource |-> ParserFile,
                               catalog |-> "LVC-GWTC1"]
                /\ samples' = r.df
                /\ pc' = "standardise"
                /\ error' = NoError
           ELSE /\ std_ret' = None
                /\ samples' = None
                /\ pc' = "load_raised"
                /\ error' = r.error
    /\ UNCHANGED <<dir, files, i, events_samples_dict, event_order,
                   summary_dict, document, first_ret, event_df, summary,
                   event_summary_dict>>

Standardise ==
    /\ pc = "standardise"
    /\ LET r == standardise_samples(samples)
       IN  /\ samples' = r.df
           /\ std_ret' = r.ret
           /\ first_ret' = r.ret
           /\ error' = r.error
           /\ pc' = IF r.error = NoError THEN "standardised" ELSE "std_raised"
    /\ UNCHANGED <<dir, files, i, events_samples_dict, event_order,
                   summary_dict, document, event_df, summary,
                   event_summary_dict>>

Restandardise ==
    /\ pc = "standardised"
    /\ LET r == standardise_samples(std_ret)
       IN  /\ samples' = r.df
           /\ std_ret' = r.ret
           /\ error' = r.error
           /\ pc' = IF r.error = NoError THEN "restandardised"
                    ELSE "restd_raised"
    /\ UNCHANGED <<dir, files, i, events_samples_dict, event_order,
                   summary_dict, document, first_ret, event_df, summary,
                   event_summary_dict>>

NextParser ==
    \/ LoadEventSamples
    \/ Standardise
    \/ Restandardise

SpecParser == InitParser /\ [][NextParser]_vars

(***************************************************************************)
(* Python dicts and the values stored in a Summary Record.                 *)
(***************************************************************************)
PyFloat(r) == [kind |-> "float", num |-> r]
PyInt(n) == [kind |-> "int", int |-> n]
PyStr(s) == [kind |-> "str", str |-> s]

\* d[k] = v
DictSet(d, k, v) == [x \in DOMAIN d \cup {k} |-> IF x = k THEN v ELSE d[x]]

\* d.get(k, None)
DictGet(d, k) == IF k \in DOMAIN d THEN d[k] ELSE None

(***************************************************************************)
(* utils.summarise_samples: the Quantile Summarizer.  It returns the       *)
(* triple (lower, median, upper) of a column: here the smallest draw, the  *)
(* median (the mean of the two middle draws when NDraws is even) and the   *)
(* largest draw.                                                           *)
(***************************************************************************)
SortedColumn(col) ==
    CHOOSE s \in [1..NDraws -> {col[j] : j \in 1..NDraws}] :
        /\ \A v \in {col[j] : j \in 1..NDraws} :
              Cardinality({j \in 1..NDraws : s[j] = v})
                  = Cardinality({j \in 1..NDraws : col[j] = v})
        /\ \A a, b \in 1..NDraws : a <= b => RLeq(s[a], s[b])

Median(col) ==
    LET s == SortedColumn(col)
    IN  IF NDraws % 2 = 1 THEN s[(NDraws + 1) \div 2]
        ELSE RDiv(RAdd(s[NDraws \div 2], s[NDraws \div 2 + 1]), Rat(2))

summarise_samples(col) ==
    LET s == SortedColumn(col)
    IN  <<s[1], Median(col), s[NDraws]>>

(***************************************************************************)
(* event_keys.GWOSC_KEYS: the published key set.                           *)
(***************************************************************************)
PublishedParameters ==
    { "mass_1_source", "mass_2_source", "chirp_mass_source",
      "total_mass_source", "chirp_mass", "luminosity_distance", "redshift",
      "chi_eff", "far" }

GWOSC_KEYS ==
    PublishedParameters
        \cup {q \o "_lower" : q \in PublishedParameters}
        \cup {q \o "_upper" : q \in PublishedParameters}

(***************************************************************************)
(* summarise_event_df.                                                     *)
(***************************************************************************)
\* The per-column loop: the triple summarise_samples returns is unpacked
\* into summary[param_lower], summary[param_upper], summary[param], in
\* that order.
RECURSIVE PrimarySummary(_, _, _)
PrimarySummary(df, k, acc) ==
    IF k > Len(df.order) THEN acc
    ELSE LET param == df.order[k]
             t == summarise_samples(df.data[param])
         IN  PrimarySummary(df, k + 1,
                 DictSet(DictSet(DictSet(acc,
                     param \o "_lower", PyFloat(t[1])),
                     param \o "_upper", PyFloat(t[2])),
                     param, PyFloat(t[3])))

ParamTypes == <<"_lower", "_upper", "">>

SourceFrameKeys == <<"mass_1", "mass_2", "chirp_mass", "total_mass">>

\* A variant that divides by 1 + the median redshift at every param_type.
DeriveStepsMedianRedshift(t) ==
    << Step("redshift", "redshift" \o t, <<"luminosity_distance" \o t>>) >>
    \o [n \in 1..Len(SourceFrameKeys) |->
          Step("source", SourceFrameKeys[n] \o "_source" \o t,
               <<SourceFrameKeys[n] \o t, "redshift">>)]

\* The assignments of one pass of the param_type loop, with the keys each
\* one reads in the order it reads them.
DeriveSteps(t) ==
    << Step("redshift", "redshift" \o t, <<"luminosity_distance" \o t>>) >>
    \o [n \in 1..Len(SourceFrameKeys) |->
          Step("source", SourceFrameKeys[n] \o "_source" \o t,
               <<SourceFrameKeys[n] \o t, "redshift" \o t>>)]

AllDeriveSteps ==
    DeriveSteps(ParamTypes[1]) \o DeriveSteps(ParamTypes[2])
        \o DeriveSteps(ParamTypes[3])

ApplyDerive(sm, s) ==
    CASE s.op = "redshift" ->
            DictSet(sm, s.dst,
                PyFloat(luminosity_distance_to_redshift(sm[s.reads[1]].num)))
      [] s.op = "source" ->
            DictSet(sm, s.dst,
                PyFloat(RDiv(sm[s.reads[1]].num,
                           RAdd(Rat(1), sm[s.reads[2]].num))))

\* Runs steps[k..] on the dict: the dict as left, and the KeyError of the
\* first key read that the dict lacks.
RECURSIVE RunDerive(_, _, _)
RunDerive(sm, steps, k) ==
    IF k > Len(steps) THEN [summary |-> sm, error |-> NoError]
    ELSE LET miss == MissingRead([data |-> sm], steps[k].reads)
         IN  IF miss # {}
             THEN [summary |-> sm, error |-> KeyError(CHOOSE m \in miss : TRUE)]
             ELSE RunDerive(ApplyDerive(sm, steps[k]), steps, k + 1)

\* A variant that keeps only the published keys that were computed.
FilterPublishedPresent(sm) ==
    DictSet([k \in GWOSC_KEYS \cap DOMAIN sm |-> sm[k]], "version", PyInt(1))

\* summary = {k: summary.get(k, None) for k in GWOSC_KEYS}; version = 1
FilterPublished(sm) ==
    DictSet([k \in GWOSC_KEYS |-> DictGet(sm, k)], "version", PyInt(1))

summarise_event_df(df) ==
    LET r == RunDerive(PrimarySummary(df, 1, <<>>), AllDeriveSteps, 1)
    IN  IF r.error = NoError
        THEN [ret |-> FilterPublished(r.summary), error |-> NoError]
        ELSE [ret |-> None, error |-> r.error]

(***************************************************************************)
(* A call of summarise_all_events on a dict holding one event, whose       *)
(* table has any subset of SummaryColumns; summarise_event_df is followed  *)
(* through its per-column loop, its param_type loop and its filter.        *)
(***************************************************************************)
SummaryColumns ==
    << "luminosity_distance", "mass_1", "mass_2", "chirp_mass", "total_mass",
       "redshift", "mass_1_source", "ra" >>

SummariseEvent == "GW150914"

InitSummarise ==
    /\ dir = <<>>
    /\ files = <<>>
    /\ document = None
    /\ error = NoError
    /\ samples = None
    /\ std_ret = None
    /\ first_ret = None
    /\ SummariserIdle
    /\ pc = "summarise"
    /\ i = 1
    /\ summary_dict = <<>>
    /\ event_order = <<SummariseEvent>>
    /\ \E cols \in SUBSET {SummaryColumns[k] : k \in 1..Len(SummaryColumns)},
          seed \in 1..MaxSeed :
          events_samples_dict =
              (SummariseEvent :> DataFrame(SummaryColumns, cols, seed))

SummariseEnter ==
    /\ pc = "summarise"
    /\ i <= Len(event_order)
    /\ event_df' = events_samples_dict[event_order[i]]
    /\ summary' = <<>>
    /\ pc' = "sum_columns"
    /\ UNCHANGED <<dir, files, i, events_samples_dict, event_order,
                   summary_dict, document, error, samples, std_ret,
                   first_ret, event_summary_dict>>

SummariseColumns ==
    /\ pc = "sum_columns"
    /\ summary' = PrimarySummary(event_df, 1, <<>>)
    /\ pc' = "sum_derive"
    /\ UNCHANGED <<dir, files, i, events_samples_dict, event_order,
                   summary_dict, document, error, samples, std_ret,
                   first_ret, event_df, event_summary_dict>>

SummariseDerive ==
    /\ pc = "sum_derive"
    /\ LET r == RunDerive(summary, AllDeriveSteps, 1)
       IN  /\ summary' = r.summary
           /\ error' = r.error
           /\ pc' = IF r.error = NoError THEN "sum_filter" ELSE "sum_raised"
    /\ UNCHANGED <<dir, files, i, events_samples_dict, event_order,
                   summary_dict, document, samples, std_ret, first_ret,
                   event_df, event_summary_dict>>

SummariseFilter ==
    /\ pc = "sum_filter"
    /\ event_summary_dict' = FilterPublished(summary)
    /\ pc' = "sum_return"
    /\ UNCHANGED <<dir, files, i, events_samples_dict, event_order,
                   summary_dict, document, error, samples, std_ret,
                   first_ret, event_df, summary>>

\* event_summary_dict['commonName'] = event_name
\* summary_dict[event_name] = event_summary_dict
SummariseStore ==
    /\ pc = "sum_return"
    /\ summary_dict' =
          DictSet(summary_dict, event_order[i],
                  DictSet(event_summary_dict, "commonName",
                          PyStr(event_order[i])))
    /\ i' = i + 1
    /\ pc' = "summarise"
    /\ UNCHANGED <<dir, files, events_samples_dict, event_order, document,
                   error, samples, std_ret, first_ret, event_df, summary,
                   event_summary_dict>>

SummariseAllReturn ==
    /\ pc = "summarise"
    /\ i > Len(event_order)
    /\ pc' = "summarised"
    /\ UNCHANGED <<dir, files, i, events_samples_dict, event_order,
                   summary_dict, document, error, samples, std_ret,
                   first_ret, event_df, summary, event_summary_dict>>

NextSummarise ==
    \/ SummariseEnter
    \/ SummariseColumns
    \/ SummariseDerive
    \/ SummariseFilter
    \/ SummariseStore
    \/ SummariseAllReturn

SpecSummarise == InitSummarise /\ [][NextSummarise]_vars

(***************************************************************************)
(* generate_lvc_catalog: the three stages over a source directory, then    *)
(* the write of the Catalog Document.                                      *)
(***************************************************************************)
\* The file names a source directory may hold.
FileNames ==
    {"GW150914_GWTC-1.hdf5", "GW150914_prior.h5", "GW151226.hdf5",
     "notes.txt"}

\* A well-formed file has every SEARCH_PARAMS key; a malformed one lacks spin2.
FileKeySets == {SearchKeys, SearchKeys \ {"spin2"}}

Directories ==
    UNION {[names -> {FileContent(keys, seed) :
                          keys \in FileKeySets, seed \in 1..MaxSeed}] :
              names \in {n \in SUBSET FileNames : Cardinality(n) <= MaxFiles}}

\* str.split(sep)[0]: the text before the first sep, or all of s.
BeforeFirst(s, sep) ==
    LET at == {k \in 1..(Len(s) - Len(sep) + 1) :
                  SubSeq(s, k, k + Len(sep) - 1) = sep}
    IN  IF at = {} THEN s
        ELSE SubSeq(s, 1, (CHOOSE k \in at : \A m \in at : k <= m) - 1)

\* The event name of a file: lines 63-64.
EventName(file) == BeforeFirst(BeforeFirst(file, ".h"), "_")

\* fnmatch of a file name against "*.h*5"; glob skips hidden files.
GlobMatches(name) ==
    /\ SubSeq(name, 1, 1) # "."
    /\ SubSeq(name, Len(name), Len(name)) = "5"
    /\ \E k \in 1..(Len(name) - 2) : SubSeq(name, k, k + 1) = ".h"

\* The orders in which glob.glob may list the matching files of d.
GlobOrders(d) ==
    LET m == {n \in DOMAIN d : GlobMatches(n)}
    IN  {o \in [1..Cardinality(m) -> m] :
            \A a, b \in 1..Cardinality(m) : o[a] = o[b] => a = b}

\* One pass of the loop of load_event_samples_to_dataframes: the dict and
\* its key order after events_samples_dict[event_name] = event_df.
LoadStep(d, st, file) ==
    LET r == ReadPosterior(d[file])
        name == EventName(file)
    IN  IF r.error # NoError
        THEN [dict |-> st.dict, order |-> st.order, error |-> r.error]
        ELSE [dict  |-> DictSet(st.dict, name, r.df),
              order |-> IF name \in DOMAIN st.dict THEN st.order
                        ELSE Append(st.order, name),
              error |-> NoError]

\* convert_df_to_gwosc_df: the assignments made on a copy of the table.
ConvertSteps ==
    << Step("copy", "mass_1", <<"m1_detector_frame_Msun">>),
       Step("copy", "mass_2", <<"m2_detector_frame_Msun">>),
       Step("ratio", "mass_ratio", <<"mass_2", "mass_1">>),
       Step("copy", "ra", <<"right_ascension">>),
       Step("copy", "dec", <<"declination">>) >>

convert_df_to_gwosc_df(df) == RunSteps(df, ConvertSteps, 1)

InitCatalog ==
    /\ dir \in Directories
    /\ files = <<>>
    /\ pc = "start"
    /\ i = 0
    /\ events_samples_dict = <<>>
    /\ event_order = <<>>
    /\ summary_dict = <<>>
    /\ document = None
    /\ error = NoError
    /\ samples = None
    /\ std_ret = None
    /\ first_ret = None
    /\ SummariserIdle

\* files = glob.glob(os.path.join(data_dir, "*.h*5"))
Glob ==
    /\ pc = "start"
    /\ files' \in GlobOrders(dir)
    /\ pc' = "load"
    /\ i' = 1
    /\ UNCHANGED <<dir, events_samples_dict, event_order, summary_dict,
                   document, error, samples, std_ret, first_ret, event_df,
                   summary, event_summary_dict>>

LoadFile ==
    /\ pc = "load"
    /\ i <= Len(files)
    /\ LET r == LoadStep(dir, [dict |-> events_samples_dict,
                               order |-> event_order], files[i])
       IN  /\ events_samples_dict' = r.dict
           /\ event_order' = r.order
           /\ error' = r.error
           /\ pc' = IF r.error = NoError THEN "load" ELSE "raised"
           /\ i' = IF r.error = NoError THEN i + 1 ELSE i
    /\ UNCHANGED <<dir, files, summary_dict, document, samples, std_ret,
                   first_ret, event_df, summary, event_summary_dict>>

\* A variant that leaves the load loop after its first pass.
LoadReturnEarly ==
    /\ pc = "load"
    /\ i > 1
    /\ pc' = "compat"
    /\ i' = 1
    /\ UNCHANGED <<dir, files, events_samples_dict, event_order,
                   summary_dict, document, error, samples, std_ret,
                   first_ret, event_df, summary, event_summary_dict>>

LoadReturn ==
    /\ pc = "load"
    /\ i > Len(files)
    /\ pc' = "compat"
    /\ i' = 1
    /\ UNCHANGED <<dir, files, events_samples_dict, event_order,
                   summary_dict, document, error, samples, std_ret,
                   first_ret, event_df, summary, event_summary_dict>>

\* One pass of the loop of make_events_gwosc_compatible.
ConvertEvent ==
    /\ pc = "compat"
    /\ i <= Len(event_order)
    /\ LET r == convert_df_to_gwosc_df(events_samples_dict[event_order[i]])
       IN  IF r.error = NoError
           THEN /\ events_samples_dict' =
                      DictSet(events_samples_dict, event_order[i], r.df)
                /\ i' = i + 1
                /\ UNCHANGED <<pc, error>>
           ELSE /\ pc' = "raised"
                /\ error' = r.error
                /\ UNCHANGED <<events_samples_dict, i>>
    /\ UNCHANGED <<dir, files, event_order, summary_dict, document, samples,
                   std_ret, first_ret, event_df, summary, event_summary_dict>>

CompatReturn ==
    /\ pc = "compat"
    /\ i > Len(event_order)
    /\ pc' = "summarise"
    /\ i' = 1
    /\ UNCHANGED <<dir, files, events_samples_dict, event_order,
                   summary_dict, document, error, samples, std_ret,
                   first_ret, event_df, summary, event_summary_dict>>

\* One pass of the loop of summarise_all_events, summarise_event_df taken
\* as one step.
SummariseEventDf ==
    /\ pc = "summarise"
    /\ i <= Len(event_order)
    /\ LET name == event_order[i]
           r == summarise_event_df(events_samples_dict[name])
       IN  IF r.error = NoError
           THEN /\ summary_dict' =
                      DictSet(summary_dict, name,
                              DictSet(r.ret, "commonName", PyStr(name)))
                /\ i' = i + 1
                /\ UNCHANGED <<pc, error>>
           ELSE /\ pc' = "raised"
                /\ error' = r.error
                /\ UNCHANGED <<summary_dict, i>>
    /\ UNCHANGED <<dir, files, events_samples_dict, event_order, document,
                   samples, std_ret, first_ret, event_df, summary,
                   event_summary_dict>>

\* dict_to_json(json_fname=out_catalog_fname, data_dict=dict(events=...))
WriteCatalog ==
    /\ pc = "summarised"
    /\ document' = [events |-> summary_dict]
    /\ pc' = "done"
    /\ UNCHANGED <<dir, files, i, events_samples_dict, event_order,
                   summary_dict, error, samples, std_ret, first_ret,
                   event_df, summary, event_summary_dict>>

Next ==
    \/ Glob
    \/ LoadFile
    \/ LoadReturn
    \/ ConvertEvent
    \/ CompatReturn
    \/ SummariseEventDf
    \/ SummariseAllReturn
    \/ WriteCatalog

Spec == InitCatalog /\ [][Next]_vars

(***************************************************************************)
(* Properties of the event parser (SpecParser).                            *)
(***************************************************************************)
\* The source columns the steps of standardise_samples read.
StandardiseSources ==
    {k \in SearchKeys : \E n \in 1..Len(StandardiseSteps) :
        \E m \in 1..Len(StandardiseSteps[n].reads) :
            StandardiseSteps[n].reads[m] = k}

\* C1 (as claimed): whenever standardise_samples has returned for a raw
\* table carrying every SEARCH_PARAMS column, the returned table has a
\* column for every name of the Canonical Parameter Set.
C1_SchemaComplete ==
    (pc = "standardised" /\ SearchKeys \subseteq Columns(samples))
        => CanonicalSet \subseteq Columns(std_ret)

\* C7: a second standardise_samples, applied to the table the first one
\* returned, does not raise, and each canonical column of its result holds
\* the same values as in the first result.
C7_Idempotent ==
    /\ pc # "restd_raised"
    /\ pc = "restandardised" =>
          /\ error = NoError
          /\ Columns(std_ret) = Columns(first_ret)
          /\ \A c \in CanonicalSet \cap Columns(first_ret) :
                std_ret.data[c] = first_ret.data[c]

C7_Witness ==
    /\ pc = "restandardised"
    /\ SearchKeys \subseteq Columns(first_ret)
    /\ "mass_1_source" \in Columns(std_ret)
    /\ std_ret.data["redshift"][1] # Rat(0)

\* C8 (as claimed): load_event_samples on a file, and standardise_samples
\* on a raw table, that lacks a SEARCH_PARAMS key end in a KeyError naming
\* a key the input lacks, and return nothing.
C8_AnySearchKey ==
    /\ (dir # <<>> /\ pc # "parser_load"
            /\ ~(SearchKeys \subseteq dir[ParserFile].keys)) =>
          /\ pc = "load_raised"
          /\ error.kind = "KeyError"
          /\ error.key \in SearchKeys \ dir[ParserFile].keys
          /\ std_ret = None
    /\ (pc \in {"standardised", "std_raised"}
            /\ ~(SearchKeys \subseteq Columns(samples))) =>
          /\ pc = "std_raised"
          /\ error.kind = "KeyError"
          /\ error.key \in SearchKeys \ Columns(samples)
          /\ std_ret = None

\* C8 (amended): load_event_samples on a file lacking a SEARCH_PARAMS key,
\* and standardise_samples on a raw table lacking a source column that one
\* of its steps reads (every SEARCH_PARAMS key but costheta_jn), end in a
\* KeyError naming a key the input lacks, and return nothing; a raw table
\* lacking no column the steps read is standardised without error.
C8_MissingColumn ==
    /\ (dir # <<>> /\ pc # "parser_load"
            /\ ~(SearchKeys \subseteq dir[ParserFile].keys)) =>
          /\ pc = "load_raised"
          /\ error.kind = "KeyError"
          /\ error.key \in SearchKeys \ dir[ParserFile].keys
          /\ std_ret = None
    /\ (pc \in {"standardised", "std_raised"}
            /\ ~(StandardiseSources \subseteq Columns(samples))) =>
          /\ pc = "std_raised"
          /\ error.kind = "KeyError"
          /\ error.key \in StandardiseSources \ Columns(samples)
          /\ std_ret = None
    /\ (pc \in {"standardised", "std_raised"}
            /\ StandardiseSources \subseteq Columns(samples)) =>
          /\ pc = "standardised"
          /\ StandardiseSources = SearchKeys \ {"costheta_jn"}

C8_Witness ==
    /\ pc = "std_raised"
    /\ "spin2" \notin Columns(samples)
    /\ error = KeyError("spin2")
    /\ "mass_1_source" \in Columns(samples)

(***************************************************************************)
(* Properties of the event summariser (SpecSummarise).                     *)
(***************************************************************************)
\* The columns whose summaries the param_type loop reads.
PrimaryColumns ==
    {"luminosity_distance"}
        \cup {SourceFrameKeys[n] : n \in 1..Len(SourceFrameKeys)}

\* The keys the param_type loop writes.
DerivedKeys ==
    {AllDeriveSteps[n].dst : n \in 1..Len(AllDeriveSteps)}

\* summarise_event_df has come back from its param_type loop without raising.
DeriveDone ==
    \/ pc \in {"sum_filter", "sum_return", "summarised"}
    \/ pc = "summarise" /\ i > 1

\* C3: every Summary Record stored in the catalog has exactly the keys of
\* GWOSC_KEYS plus commonName and version; a published key that was not
\* computed is null, a published key that was computed keeps its value.
C3_PublishedKeys ==
    \A name \in DOMAIN summary_dict :
        /\ DOMAIN summary_dict[name]
              = GWOSC_KEYS \cup {"commonName", "version"}
        /\ \A k \in GWOSC_KEYS :
              /\ k \notin DOMAIN summary => summary_dict[name][k] = None
              /\ k \in DOMAIN summary => summary_dict[name][k] = summary[k]

C3_Witness ==
    /\ pc = "summarised"
    /\ SummariseEvent \in DOMAIN summary_dict
    /\ {"mass_1", "ra_upper"} \subseteq DOMAIN summary
    /\ summary_dict[SummariseEvent]["far"] = None
    /\ summary_dict[SummariseEvent]["redshift"] # None

\* C4 (as claimed): after the per-column loop, for every column p of the
\* table, summary[p_lower] <= summary[p] <= summary[p_upper] and summary[p]
\* is the median of the column.
C4_QuantileOrder ==
    pc = "sum_derive" =>
        \A p \in Columns(event_df) :
            /\ RLeq(summary[p \o "_lower"].num, summary[p].num)
            /\ RLeq(summary[p].num, summary[p \o "_upper"].num)
            /\ summary[p].num = Median(event_df.data[p])

\* C9: once the param_type loop is through, for each suffix t the stored
\* redshift is the redshift function of the summarised luminosity_distance
\* of suffix t, and each stored source-frame mass is the summarised
\* detector-frame quantity of suffix t divided by 1 + that redshift; all
\* other entries are those of the per-column loop, and the returned record
\* carries the derived values of the published keys.  When the table lacks
\* a column the loop reads, the call raises KeyError for a key of that
\* column and no record is returned or stored.
C9_SummariseThenDerive ==
    /\ DeriveDone =>
          /\ \A n \in 1..Len(ParamTypes) :
                LET t == ParamTypes[n]
                    z == summary["redshift" \o t].num
                IN  /\ z = luminosity_distance_to_redshift(
                               summary["luminosity_distance" \o t].num)
                    /\ \A m \in 1..Len(SourceFrameKeys) :
                          summary[SourceFrameKeys[m] \o "_source" \o t].num
                              = RDiv(summary[SourceFrameKeys[m] \o t].num,
                                     RAdd(Rat(1), z))
          /\ \A k \in DOMAIN summary \ DerivedKeys :
                summary[k] = PrimarySummary(event_df, 1, <<>>)[k]
          /\ pc # "sum_filter" =>
                \A k \in DerivedKeys \cap GWOSC_KEYS :
                    event_summary_dict[k] = summary[k]
    /\ (pc \notin {"summarise", "sum_columns", "sum_derive"}
            /\ ~(PrimaryColumns \subseteq Columns(event_df))) =>
          /\ pc = "sum_raised"
          /\ error.kind = "KeyError"
          /\ \E c \in PrimaryColumns \ Columns(event_df) :
                error.key \in {c \o ParamTypes[n] : n \in 1..Len(ParamTypes)}
          /\ event_summary_dict = None
          /\ summary_dict = <<>>

\* A table that already had redshift and mass_1_source columns: their
\* per-draw summaries were replaced by the derived values.
C9_Witness ==
    /\ pc = "sum_return"
    /\ {"redshift", "mass_1_source"} \subseteq Columns(event_df)
    /\ summary["redshift_lower"]
          # PrimarySummary(event_df, 1, <<>>)["redshift_lower"]
    /\ summary["mass_1_source"]
          # PrimarySummary(event_df, 1, <<>>)["mass_1_source"]
    /\ event_summary_dict["mass_1_source_upper"] = summary["mass_1_source_upper"]

(***************************************************************************)
(* Properties of the catalog run (Spec).                                   *)
(***************************************************************************)
\* The files of the directory the glob pattern matches.
Matched == {n \in DOMAIN dir : GlobMatches(n)}

WellFormed(n) == SearchKeys \subseteq dir[n].keys

IsSummaryRecord(rec) == DOMAIN rec = GWOSC_KEYS \cup {"commonName", "version"}

\* The whole loop of load_event_samples_to_dataframes over the files in
\* the order given.
RECURSIVE LoadAll(_, _, _)
LoadAll(order, k, st) ==
    IF k > Len(order) \/ st.error # NoError THEN st
    ELSE LoadAll(order, k + 1, LoadStep(dir, st, order[k]))

\* C2 (as claimed): when every posterior file of the directory is
\* well-formed the run does not raise, and the document it writes holds one
\* Summary Record per derived event name.
C2_EndToEnd ==
    (\A n \in Matched : WellFormed(n)) =>
        /\ pc # "raised"
        /\ pc = "done" =>
              /\ DOMAIN document.events = {EventName(n) : n \in Matched}
              /\ \A e \in DOMAIN document.events :
                    IsSummaryRecord(document.events[e])

\* C5 (as claimed): when the directory holds one valid and one malformed
\* posterior file, the run ends with a document holding the valid event's
\* Summary Record and, in place of a record of the malformed event, a
\* failure note under its event name.
C5_BestEffort ==
    \A v, m \in Matched :
        (/\ pc \in {"done", "raised"}
         /\ Matched = {v, m}
         /\ WellFormed(v)
         /\ ~WellFormed(m)
         /\ EventName(v) # EventName(m)) =>
            /\ document # None
            /\ EventName(v) \in DOMAIN document.events
            /\ IsSummaryRecord(document.events[EventName(v)])
            /\ EventName(m) \in DOMAIN document.events
            /\ ~IsSummaryRecord(document.events[EventName(m)])

C10_PerEventCompletion ==
    /\ Cardinality(DOMAIN events_samples_dict) <= 1
    /\ (pc = "load" /\ i <= Len(files)) =>
          \A k \in 1..(i - 1) : EventName(files[k]) \in DOMAIN summary_dict

Converted(df) == {"mass_1", "mass_2", "mass_ratio", "ra", "dec"} \subseteq Columns(df)

\* C10 (amended): the run is staged.  While files are loaded no event has
\* been made compatible or summarised; every matched file has been loaded
\* before the first event is made compatible, and every event has been made
\* compatible before the first is summarised; the tables of all loaded
\* events, one per event name, stay in events_samples_dict through every
\* stage.
C10_Staged ==
    /\ pc = "load" =>
          /\ DOMAIN events_samples_dict = {EventName(files[k]) : k \in 1..(i - 1)}
          /\ \A e \in DOMAIN events_samples_dict :
                ~Converted(events_samples_dict[e])
          /\ summary_dict = <<>>
    /\ pc \in {"compat", "summarise", "summarised", "done"} =>
          /\ DOMAIN events_samples_dict
                = {EventName(files[k]) : k \in 1..Len(files)}
          /\ Len(event_order) = Cardinality(DOMAIN events_samples_dict)
    /\ pc = "compat" =>
          /\ \A k \in 1..Len(event_order) :
                Converted(events_samples_dict[event_order[k]]) <=> k < i
          /\ summary_dict = <<>>
    /\ pc \in {"summarise", "summarised", "done"} =>
          /\ \A e \in DOMAIN events_samples_dict :
                Converted(events_samples_dict[e])
          /\ DOMAIN summary_dict \subseteq DOMAIN events_samples_dict

\* Two events: the second is loaded and the first made compatible while
\* neither has been summarised, and both tables are held.
C10_Witness ==
    /\ pc = "compat"
    /\ i = 2
    /\ Cardinality(DOMAIN events_samples_dict) = 2
    /\ Converted(events_samples_dict[event_order[1]])
    /\ ~Converted(events_samples_dict[event_order[2]])

====
